---- MODULE Spec2Model ----
(***************************************************************************)
(* Model of canada_tax/processor.py: the Processor class that resolves a   *)
(* taxing jurisdiction, fetches the tax rates of a tax class, reduces them *)
(* to a total rate with a per-code breakdown (tax_rate_list) and applies   *)
(* the reduction to prices, shipping and whole orders.                     *)
(***************************************************************************)
EXTENDS Integers, Sequences, FiniteSets, TLC

VARIABLES
    pc,        \* position of the running call: "ready", "items", "done"
    op,        \* name of the method that was called ("" before any call)
    rates,     \* the argument of a direct tax_rate_list(rates) call
    ret,       \* what the call returned or raised
    config,    \* the livesettings values of the TAX group
    order,     \* Processor.order
    user,      \* Processor.user
    log,       \* the records written to the 'tax.canada_tax' logger
    args,      \* the arguments of the call of by_price, by_product, ...
    taxclasses,   \* the TaxClass table: the primary keys of its rows
    taxrates,     \* the CanadianTaxRate table: its rows in query order
    sub_total,    \* process: the running tax total
    tax_details,  \* process: the running per-code amounts
    todo          \* process: the taxable order items not yet visited

world == <<config, order, user, taxclasses, taxrates>>
locals == <<sub_total, tax_details, todo>>
vars == <<pc, op, rates, ret, config, order, user, log, args, taxclasses,
          taxrates, sub_total, tax_details, todo>>

----------------------------------------------------------------------------
(* decimal.Decimal.  A value is c * 10^(-e).  Below the context precision  *)
(* (28 digits, never reached with the operands used here) Decimal          *)
(* arithmetic is exact and == compares values, so a value is kept in its   *)
(* shortest form and compared with =.                                      *)

RECURSIVE Pow10(_)
Pow10(n) == IF n = 0 THEN 1 ELSE 10 * Pow10(n - 1)

RECURSIVE Norm(_)
Norm(d) ==
    IF d.e > 0 /\ d.c % 10 = 0
    THEN Norm([c |-> d.c \div 10, e |-> d.e - 1])
    ELSE d

Dec(c, e) == Norm([c |-> c, e |-> e])

\* Decimal("0.00")
Zero == Dec(0, 2)

Max(a, b) == IF a >= b THEN a ELSE b

\* Decimal.__add__
DecAdd(a, b) ==
    LET e == Max(a.e, b.e)
    IN  Dec(a.c * Pow10(e - a.e) + b.c * Pow10(e - b.e), e)

\* Decimal.__mul__
DecMul(a, b) == Dec(a.c * b.c, a.e + b.e)

\* bool(Decimal): zero is falsy
DecTruthy(d) == d.c # 0

----------------------------------------------------------------------------
(* TaxRate records and the reduction tax_rate_list.                        *)

TaxCodes == {"GST", "PST"}
Percentages == {Dec(5, 2), Dec(7, 2)}
CompoundOrders == {1, 2}

\* The fields of a TaxRate that tax_rate_list reads.  compound_order takes
\* its second value on the records that are sorted by it.
TaxRates ==
    {r \in [taxCode : TaxCodes, percentage : Percentages, compound : BOOLEAN,
            compound_order : CompoundOrders, override : BOOLEAN] :
        (r.override \/ ~r.compound) => r.compound_order = 1}

\* longest rate list handed to tax_rate_list
MaxLen == 3

RECURSIVE SeqsUpTo(_, _)
SeqsUpTo(S, n) ==
    IF n = 0 THEN {<<>>}
    ELSE LET shorter == SeqsUpTo(S, n - 1)
         IN  shorter \cup {Append(s, x) : s \in {t \in shorter : Len(t) = n - 1}, x \in S}

RateLists == SeqsUpTo(TaxRates, MaxLen)

IsOverride(r) == r.override
IsCompound(r) == r.compound
IsRegular(r) == ~r.compound

\* [r for r in rates if r.override], a faulty variant: the list
\* reversed, the last override record first
override_rates_last_first(rs) ==
    LET s == SelectSeq(rs, IsOverride)
    IN  [i \in 1..Len(s) |-> s[Len(s) + 1 - i]]

\* [r for r in rates if r.override]
override_rates(rs) == SelectSeq(rs, IsOverride)

\* [r for r in rates if not r.compound]
regular_rates(rs) == SelectSeq(rs, IsRegular)

\* sorted(..., key=attrgetter("compound_order")): a stable sort, an element
\* goes behind every element whose key is not larger
RECURSIVE InsertByOrder(_, _)
InsertByOrder(s, x) ==
    IF s = <<>> THEN <<x>>
    ELSE IF s[1].compound_order <= x.compound_order
         THEN <<s[1]>> \o InsertByOrder(Tail(s), x)
         ELSE <<x>> \o s

RECURSIVE SortedByOrder(_)
SortedByOrder(s) ==
    IF s = <<>> THEN <<>>
    ELSE InsertByOrder(SortedByOrder(SubSeq(s, 1, Len(s) - 1)), s[Len(s)])

\* a faulty variant: the compound rates in input order
compound_rates_unsorted(rs) == SelectSeq(rs, IsCompound)

\* sorted([r for r in rates if r.compound], key=attrgetter("compound_order"))
compound_rates(rs) == SortedByOrder(SelectSeq(rs, IsCompound))

\* the body of "for rate in regular_rates"
RegularStep(acc, rate) ==
    [totalrate |-> DecAdd(acc.totalrate, rate.percentage),
     receipt_data |-> Append(acc.receipt_data, <<rate.taxCode, rate.percentage>>)]

\* a faulty variant: the compound rate is added to the total uncompounded
CompoundStep_adds_nominal(acc, rate) ==
    LET percentage == DecAdd(rate.percentage, DecMul(rate.percentage, acc.totalrate))
    IN  [totalrate |-> DecAdd(acc.totalrate, rate.percentage),
         receipt_data |-> Append(acc.receipt_data, <<rate.taxCode, percentage>>)]

\* a faulty variant: the compound rate is not compounded
CompoundStep_flat(acc, rate) ==
    [totalrate |-> DecAdd(acc.totalrate, rate.percentage),
     receipt_data |-> Append(acc.receipt_data, <<rate.taxCode, rate.percentage>>)]

\* the body of "for rate in compound_rates"
CompoundStep(acc, rate) ==
    LET percentage == DecAdd(rate.percentage, DecMul(rate.percentage, acc.totalrate))
    IN  [totalrate |-> DecAdd(acc.totalrate, percentage),
         receipt_data |-> Append(acc.receipt_data, <<rate.taxCode, percentage>>)]

RECURSIVE RegularLoop(_, _)
RegularLoop(acc, s) ==
    IF s = <<>> THEN acc ELSE RegularLoop(RegularStep(acc, s[1]), Tail(s))

RECURSIVE CompoundLoop(_, _)
CompoundLoop(acc, s) ==
    IF s = <<>> THEN acc ELSE CompoundLoop(CompoundStep(acc, s[1]), Tail(s))

\* Processor.tax_rate_list: <<total rate, <<taxCode, percentage>> ...>>
tax_rate_list(rs) ==
    IF rs = <<>> THEN <<Zero, <<>>>>
    ELSE IF override_rates(rs) # <<>>
    THEN LET rate == override_rates(rs)[1]
         IN  <<rate.percentage, << <<rate.taxCode, rate.percentage>> >> >>
    ELSE LET acc0 == [totalrate |-> Zero, receipt_data |-> <<>>]
             acc1 == RegularLoop(acc0, regular_rates(rs))
             acc2 == CompoundLoop(acc1, compound_rates(rs))
         IN  <<acc2.totalrate, acc2.receipt_data>>

----------------------------------------------------------------------------
(* Calls and what they give back.                                          *)

NoReturn == [kind |-> "none"]
Returned(v) == [kind |-> "return", val |-> v]
Raised(x) == [kind |-> "raise", exc |-> x]

----------------------------------------------------------------------------
(* The collaborators of _get_location: the settings, the l10n directory    *)
(* of countries and administrative areas, orders, users and contacts.      *)

None == "None"

\* bool(x) of a string, an object or None
Truthy(x) == x # None /\ x # ""

\* str.lower() on the strings an address carries; __iexact compares the
\* lowered strings
Lower(s) ==
    CASE s = "ONTARIO" -> "ontario"
      [] s = "Ontario" -> "ontario"
      [] s = "ON" -> "on"
      [] s = "Oregon" -> "oregon"
      [] s = "OR" -> "or"
      [] s = "Nowhere" -> "nowhere"
      [] s = "Default" -> "default"
      [] s = "Shipping" -> "shipping"
      [] OTHER -> s

\* l10n Country rows, by primary key
CountryRows ==
    [c \in {"Country:CA", "Country:US"} |->
        IF c = "Country:CA" THEN [iso2_code |-> "CA"] ELSE [iso2_code |-> "US"]]

\* l10n AdminArea rows, by primary key
AdminAreaRows ==
    [a \in {"AdminArea:Ontario", "AdminArea:Oregon"} |->
        IF a = "AdminArea:Ontario"
        THEN [name |-> "Ontario", abbrev |-> "ON", country |-> "Country:CA"]
        ELSE [name |-> "Oregon", abbrev |-> "OR", country |-> "Country:US"]]

\* Config.objects.get_current().sales_country
sales_country == "Country:CA"

\* Manager.get(): the one matching row, DoesNotExist or
\* MultipleObjectsReturned
Get(matches) ==
    IF matches = {} THEN [found |-> FALSE, obj |-> None, exc |-> "DoesNotExist"]
    ELSE IF Cardinality(matches) = 1
    THEN [found |-> TRUE, obj |-> CHOOSE m \in matches : TRUE, exc |-> ""]
    ELSE [found |-> FALSE, obj |-> None, exc |-> "MultipleObjectsReturned"]

\* Country.objects.get(iso2_code__exact=country)
CountryGet(code) ==
    Get({c \in DOMAIN CountryRows : CountryRows[c].iso2_code = code})

\* AdminArea.objects.get(name__iexact=area, country=country)
AdminAreaGetByName(area, country) ==
    Get({a \in DOMAIN AdminAreaRows :
            /\ Lower(AdminAreaRows[a].name) = Lower(area)
            /\ AdminAreaRows[a].country = country})

\* AdminArea.objects.get(abbrev__iexact=area, country=country)
AdminAreaGetByAbbrev(area, country) ==
    Get({a \in DOMAIN AdminAreaRows :
            /\ Lower(AdminAreaRows[a].abbrev) = Lower(area)
            /\ AdminAreaRows[a].country = country})

AddressCountries == {"", "CA", "ca", "US", "XX"}
AddressStates == {"", "ONTARIO", "on", "Oregon", "Nowhere"}

NoOrder ==
    [present |-> FALSE, ship_country |-> "", ship_state |-> "",
     bill_country |-> "", bill_state |-> "", shipping_sub_total |-> Zero,
     orderitem_set |-> <<>>]

\* orders as far as _get_location reads them
AddressedOrders ==
    {[present |-> TRUE, ship_country |-> sc, ship_state |-> ss,
      bill_country |-> bc, bill_state |-> bs, shipping_sub_total |-> Zero,
      orderitem_set |-> <<>>] :
        sc \in AddressCountries, ss \in AddressStates,
        bc \in AddressCountries, bs \in AddressStates}

\* contact.shipping_address / contact.billing_address: an AddressBook row or
\* None (reading .state of None raises AttributeError)
NoAddress == [present |-> FALSE, state |-> "", country |-> None]

ContactAddresses ==
    {NoAddress} \cup
    {[present |-> TRUE, state |-> st, country |-> c] :
        st \in {"on", "Nowhere"}, c \in DOMAIN CountryRows}

\* no user, an anonymous user, an authenticated user without a Contact row
NoUser ==
    [present |-> FALSE, is_authenticated |-> FALSE, has_contact |-> FALSE,
     shipping_address |-> NoAddress, billing_address |-> NoAddress]

AnonymousUser ==
    [present |-> TRUE, is_authenticated |-> FALSE, has_contact |-> FALSE,
     shipping_address |-> NoAddress, billing_address |-> NoAddress]

UserWithoutContact ==
    [present |-> TRUE, is_authenticated |-> TRUE, has_contact |-> FALSE,
     shipping_address |-> NoAddress, billing_address |-> NoAddress]

Users ==
    {NoUser, AnonymousUser, UserWithoutContact} \cup
    {[present |-> TRUE, is_authenticated |-> TRUE, has_contact |-> TRUE,
      shipping_address |-> sa, billing_address |-> ba] :
        sa \in ContactAddresses, ba \in ContactAddresses}

LocationConfigs ==
    [TAX_AREA_ADDRESS : {"ship", "bill"}, TAX_SHIPPING_CANADIAN : {FALSE},
     TAX_CLASS : {"Shipping"}, TAX_SHIPPING_DETAILS_SEPARATE : {FALSE}]

LogRecord(level, msg) == <<level, msg>>

\* lines 32-64: the raw area and country of the order or of the user's
\* contact
RawLocation(ord, usr, cfg) ==
    LET calc_by_ship_address == cfg.TAX_AREA_ADDRESS = "ship"
        nothing == [area |-> None, country |-> None, log |-> <<>>]
    IN  IF ord.present
        THEN LET country == IF calc_by_ship_address THEN ord.ship_country
                            ELSE ord.bill_country
                 area == IF calc_by_ship_address THEN ord.ship_state
                         ELSE ord.bill_state
             IN  IF ~Truthy(country)
                 THEN [area |-> area, country |-> country, log |-> <<>>]
                 ELSE IF CountryGet(country).exc = "DoesNotExist"
                 THEN [area |-> area, country |-> None,
                       log |-> <<LogRecord("error", "Couldn't find Country from string")>>]
                 ELSE [area |-> area, country |-> CountryGet(country).obj,
                       log |-> <<>>]
        ELSE IF usr.present /\ usr.is_authenticated
        THEN IF ~usr.has_contact THEN nothing
             ELSE LET address == IF calc_by_ship_address THEN usr.shipping_address
                                 ELSE usr.billing_address
                  IN  IF address.present
                      THEN [area |-> address.state, country |-> address.country,
                            log |-> <<>>]
                      ELSE nothing
        ELSE nothing

\* a faulty variant: the area string is kept when no AdminArea matches it
AreaNotFound_keeps_string(area) ==
    [area |-> area, exc |-> "",
     log |-> <<LogRecord("info", "Couldn't find AdminArea from string")>>]

\* lines 78-80: no AdminArea by name nor by abbreviation
AreaNotFound(area) ==
    [area |-> None, exc |-> "",
     log |-> <<LogRecord("info", "Couldn't find AdminArea from string")>>]

\* lines 70-80: the AdminArea of a raw area string
ResolveArea(area, country) ==
    IF ~Truthy(area) THEN [area |-> area, exc |-> "", log |-> <<>>]
    ELSE LET byName == AdminAreaGetByName(area, country)
             byAbbrev == AdminAreaGetByAbbrev(area, country)
         IN  IF byName.found THEN [area |-> byName.obj, exc |-> "", log |-> <<>>]
             ELSE IF byName.exc # "DoesNotExist"
             THEN [area |-> None, exc |-> byName.exc, log |-> <<>>]
             ELSE IF byAbbrev.found
             THEN [area |-> byAbbrev.obj, exc |-> "", log |-> <<>>]
             ELSE IF byAbbrev.exc # "DoesNotExist"
             THEN [area |-> None, exc |-> byAbbrev.exc, log |-> <<>>]
             ELSE AreaNotFound(area)

\* Processor._get_location, with the log records it writes and the
\* exception it lets through
Location(ord, usr, cfg) ==
    LET raw == RawLocation(ord, usr, cfg)
        country == IF ~Truthy(raw.country) THEN sales_country ELSE raw.country
        res == ResolveArea(raw.area, country)
    IN  [area |-> res.area, country |-> country, exc |-> res.exc,
         log |-> raw.log \o res.log]

\* Processor._get_location: (area, country)
get_location(ord, usr, cfg) ==
    LET loc == Location(ord, usr, cfg)
    IN  IF loc.exc # "" THEN Raised(loc.exc)
        ELSE Returned(<<loc.area, loc.country>>)


----------------------------------------------------------------------------
(* Tax classes, the tax rate table and get_rate.                           *)

\* product.models.TaxClass rows, by primary key
TaxClassRows ==
    [t \in {"TaxClass:Default", "TaxClass:Shipping"} |->
        IF t = "TaxClass:Default" THEN [title |-> "Default"]
        ELSE [title |-> "Shipping"]]

\* satchmo_utils.is_string_like
is_string_like(x) == x \notin DOMAIN TaxClassRows /\ x # None

\* TaxClass.objects.get(title__iexact=taxclass)
TaxClassGetIexact(title) ==
    Get({t \in taxclasses : Lower(TaxClassRows[t].title) = Lower(title)})

\* TaxClass.objects.get(title=...)
TaxClassGetExact(title) ==
    Get({t \in taxclasses : TaxClassRows[t].title = title})

TaxRateRow(class, code, pct, compound, override, zone, country) ==
    [taxClass |-> class, taxCode |-> code, percentage |-> pct,
     compound |-> compound, compound_order |-> 1, override |-> override,
     taxZone |-> zone, taxCountry |-> country]

\* The rows a CanadianTaxRate table is made of: for each tax class a federal
\* rate on the country, a compound provincial rate on the area and an
\* overriding harmonised rate on the area.
RateCatalogue ==
    << TaxRateRow("TaxClass:Default", "GST", Dec(5, 2), FALSE, FALSE, None, "Country:CA"),
       TaxRateRow("TaxClass:Default", "PST", Dec(7, 2), TRUE, FALSE, "AdminArea:Ontario", None),
       TaxRateRow("TaxClass:Default", "HST", Dec(13, 2), FALSE, TRUE, "AdminArea:Ontario", None),
       TaxRateRow("TaxClass:Shipping", "GST", Dec(5, 2), FALSE, FALSE, None, "Country:CA"),
       TaxRateRow("TaxClass:Shipping", "PST", Dec(7, 2), TRUE, FALSE, "AdminArea:Ontario", None),
       TaxRateRow("TaxClass:Shipping", "HST", Dec(13, 2), FALSE, TRUE, "AdminArea:Ontario", None) >>

\* the catalogue rows with index in S, in catalogue order
RECURSIVE RowsOf(_, _)
RowsOf(S, i) ==
    IF i > Len(RateCatalogue) THEN <<>>
    ELSE (IF i \in S THEN <<RateCatalogue[i]>> ELSE <<>>) \o RowsOf(S, i + 1)

TaxRateTables == {RowsOf(S, 1) : S \in SUBSET (1..Len(RateCatalogue))}

\* list(TaxRate.objects.filter(taxClass=taxclass, taxZone=area))
RatesOfZone(taxclass, area) ==
    LET Match(r) == r.taxClass = taxclass /\ r.taxZone = area
    IN  SelectSeq(taxrates, Match)

\* list(TaxRate.objects.filter(taxClass=taxclass, taxCountry=country))
RatesOfCountry(taxclass, country) ==
    LET Match(r) == r.taxClass = taxclass /\ r.taxCountry = country
    IN  SelectSeq(taxrates, Match)

\* lines 95-96: the area and country get_rate was given, or those of
\* _get_location when it was given neither
RateLocation(area, country) ==
    IF ~(Truthy(area) \/ Truthy(country))
    THEN Location(order, user, config)
    ELSE [area |-> area, country |-> country, exc |-> "", log |-> <<>>]

\* lines 106-111: the rates of the area, then the rates of the country
RatesOf(class, loc) ==
    (IF Truthy(loc.area) THEN RatesOfZone(class, loc.area) ELSE <<>>)
    \o (IF Truthy(loc.country) THEN RatesOfCountry(class, loc.country) ELSE <<>>)

\* lines 99-118 for a tax class given by title
RateOfTitle(found, loc) ==
    IF ~found.found
    THEN [exc |-> IF found.exc = "DoesNotExist" THEN "ImproperlyConfigured"
                  ELSE found.exc,
          val |-> <<Zero, <<>>>>, log |-> loc.log]
    ELSE [exc |-> "", val |-> tax_rate_list(RatesOf(found.obj, loc)),
          log |-> loc.log \o <<LogRecord("debug", "Got rates")>>]

\* lines 99-118 for a tax class given as a TaxClass row
RateOfClass(class, loc) ==
    [exc |-> "", val |-> tax_rate_list(RatesOf(class, loc)),
     log |-> loc.log \o <<LogRecord("debug", "Got rates")>>]

\* lines 95-118 for a tax class that is not None
RateAt(taxclass, loc) ==
    IF loc.exc # ""
    THEN [exc |-> loc.exc, val |-> <<Zero, <<>>>>, log |-> loc.log]
    ELSE IF is_string_like(taxclass)
    THEN RateOfTitle(TaxClassGetIexact(taxclass), loc)
    ELSE RateOfClass(taxclass, loc)

\* Processor.get_rate(taxclass, area, country, get_object=True), with the
\* log records it writes and the exception it raises
GetRate(taxclass, area, country) ==
    RateAt(IF ~Truthy(taxclass) THEN "Default" ELSE taxclass,
           RateLocation(area, country))

\* lines 115-118: the rate list or its total
ReturnRate(r, get_object) ==
    IF r.exc # "" THEN Raised(r.exc)
    ELSE IF get_object THEN Returned(r.val)
    ELSE Returned(r.val[1])

\* Processor.get_rate
get_rate(taxclass, area, country, get_object) ==
    ReturnRate(GetRate(taxclass, area, country), get_object)

Hundred == Dec(100, 0)

\* rate * x, unless get_rate raised
Times(rate, x) ==
    IF rate.kind = "raise" THEN rate ELSE Returned(DecMul(rate.val, x))

\* Processor.get_percent
get_percent(taxclass, area, country) ==
    Times(get_rate(taxclass, area, country, FALSE), Hundred)

\* Processor.by_price
by_price(taxclass, price) ==
    Times(get_rate(taxclass, None, None, FALSE), price)

\* the log records of a by_price call
by_price_log(taxclass) == GetRate(taxclass, None, None).log

\* Processor.by_product: product.get_qty_price(quantity)[0] is the price
\* the product gives for that quantity
by_product(product, quantity) ==
    by_price(product.taxClass, product.qty_price[quantity])

\* Processor.by_orderitem
by_orderitem(orderitem) ==
    IF orderitem.product.taxable
    THEN by_price(orderitem.product.taxClass, orderitem.sub_total)
    ELSE Returned(Zero)

----------------------------------------------------------------------------
(* Dictionaries of amounts by tax code.                                    *)

EmptyDict == [k \in {} |-> Zero]

\* if k not in d: d[k] = Decimal('0.00'); d[k] += v
DictAdd(d, k, v) ==
    [x \in DOMAIN d \cup {k} |->
        IF x = k THEN DecAdd(IF k \in DOMAIN d THEN d[k] ELSE Zero, v) ELSE d[x]]

\* for taxcode, rate in taxes: tax_details[taxcode] += rate * price
RECURSIVE AddDetails(_, _, _)
AddDetails(d, taxes, price) ==
    IF taxes = <<>> THEN d
    ELSE AddDetails(DictAdd(d, taxes[1][1], DecMul(taxes[1][2], price)),
                    Tail(taxes), price)

----------------------------------------------------------------------------
(* Processor.shipping                                                      *)

\* a subtotal argument: None or a Decimal
NoSubtotal == [given |-> FALSE, value |-> Zero]
Subtotal(d) == [given |-> TRUE, value |-> d]

\* a faulty variant: the missing tax class is not caught
ShippingClassMissing_raises(exc) ==
    [exc |-> exc, full_rate |-> Zero, taxes |-> <<>>, log |-> <<>>]

\* lines 191-192: except ObjectDoesNotExist
ShippingClassMissing(exc) ==
    IF exc = "DoesNotExist"
    THEN [exc |-> "", full_rate |-> Zero, taxes |-> <<>>,
          log |-> <<LogRecord("error", "'Shipping' TaxClass doesn't exist.")>>]
    ELSE [exc |-> exc, full_rate |-> Zero, taxes |-> <<>>, log |-> <<>>]

\* config_value('TAX','TAX_SHIPPING_CANADIAN')
ShippingTaxed == config.TAX_SHIPPING_CANADIAN

\* line 190: full_rate, taxes = self.get_rate(taxclass=taxclass,
\* get_object=True)
ShippingRateOf(r) ==
    IF r.exc # ""
    THEN [exc |-> r.exc, full_rate |-> Zero, taxes |-> <<>>, log |-> r.log]
    ELSE [exc |-> "", full_rate |-> r.val[1], taxes |-> r.val[2], log |-> r.log]

\* lines 187-192: the tax class named by TAX_CLASS and its rate
ShippingRateOfClass(found) ==
    IF ~found.found THEN ShippingClassMissing(found.exc)
    ELSE ShippingRateOf(GetRate(found.obj, None, None))

\* lines 184-192: full_rate (None kept as zero, both falsy) and taxes
ShippingRate ==
    IF ~ShippingTaxed
    THEN [exc |-> "", full_rate |-> Zero, taxes |-> <<>>, log |-> <<>>]
    ELSE ShippingRateOfClass(TaxClassGetExact(config.TAX_CLASS))

\* lines 194-203: the tax and its details on a subtotal that is not zero
ShippingTax(r, value) ==
    IF r.exc # ""
    THEN [exc |-> r.exc, ship_tax |-> Zero, tax_details |-> EmptyDict, log |-> r.log]
    ELSE [exc |-> "",
          ship_tax |-> IF DecTruthy(r.full_rate) THEN DecMul(r.full_rate, value)
                       ELSE Zero,
          tax_details |-> AddDetails(EmptyDict, r.taxes, value),
          log |-> r.log]

\* lines 183-206
ShippingOn(st) ==
    IF st.given /\ DecTruthy(st.value) THEN ShippingTax(ShippingRate, st.value)
    ELSE [exc |-> "", ship_tax |-> Zero, tax_details |-> EmptyDict, log |-> <<>>]

\* Processor.shipping(subtotal, with_details=True), with the log records it
\* writes and the exception it raises
Shipping(subtotal) ==
    ShippingOn(IF ~subtotal.given /\ order.present
               THEN Subtotal(order.shipping_sub_total)
               ELSE subtotal)

\* lines 208-211
ReturnShipping(r, with_details) ==
    IF r.exc # "" THEN Raised(r.exc)
    ELSE IF with_details THEN Returned(<<r.ship_tax, r.tax_details>>)
    ELSE Returned(r.ship_tax)

\* Processor.shipping
shipping(subtotal, with_details) ==
    ReturnShipping(Shipping(subtotal), with_details)

DefaultConfig ==
    [TAX_AREA_ADDRESS |-> "bill", TAX_SHIPPING_CANADIAN |-> FALSE,
     TAX_CLASS |-> "Shipping", TAX_SHIPPING_DETAILS_SEPARATE |-> FALSE]

\* a direct call of tax_rate_list on a list of rate records
InitReduce ==
    /\ pc = "ready"
    /\ op = ""
    /\ rates \in RateLists
    /\ ret = NoReturn
    /\ config = DefaultConfig
    /\ order = NoOrder
    /\ user = NoUser
    /\ log = <<>>
    /\ args = <<>>
    /\ taxclasses = {}
    /\ taxrates = <<>>
    /\ sub_total = Zero
    /\ tax_details = EmptyDict
    /\ todo = <<>>

Call_tax_rate_list ==
    /\ pc = "ready"
    /\ pc' = "done"
    /\ op' = "tax_rate_list"
    /\ ret' = Returned(tax_rate_list(rates))
    /\ UNCHANGED <<rates, log, args, world, locals>>

NextReduce == Call_tax_rate_list

SpecReduce == InitReduce /\ [][NextReduce]_vars

\* a call of _get_location on a processor built with an order, a user, both
\* or neither
InitLocation ==
    /\ pc = "ready"
    /\ op = ""
    /\ rates = <<>>
    /\ ret = NoReturn
    /\ config \in LocationConfigs
    /\ order \in {NoOrder} \cup AddressedOrders
    /\ user \in Users
    /\ log = <<>>
    /\ args = <<>>
    /\ taxclasses = {}
    /\ taxrates = <<>>
    /\ sub_total = Zero
    /\ tax_details = EmptyDict
    /\ todo = <<>>

Call_get_location ==
    /\ pc = "ready"
    /\ pc' = "done"
    /\ op' = "_get_location"
    /\ ret' = get_location(order, user, config)
    /\ log' = log \o Location(order, user, config).log
    /\ UNCHANGED <<rates, args, world, locals>>

NextLocation == Call_get_location

SpecLocation == InitLocation /\ [][NextLocation]_vars

----------------------------------------------------------------------------
(* Direct calls of get_rate, get_percent, by_price, by_product,            *)
(* by_orderitem and shipping on a processor built with an order.           *)

Quantities == {1, 2}

\* what product.get_qty_price gives for one piece and for two
QtyPrices == [q \in Quantities |-> IF q = 1 THEN Dec(200, 2) ELSE Dec(150, 2)]

\* products: the taxable flag and the tax class (None or a TaxClass row)
Products(classes) ==
    [taxable : BOOLEAN, taxClass : {None} \cup classes, qty_price : {QtyPrices}]

OrderItems(classes) ==
    [product : Products(classes), sub_total : {Dec(250, 2)}]

\* an order billed to Canada with the given state and shipping subtotal
BilledOrder(state, ship, items) ==
    [present |-> TRUE, ship_country |-> "CA", ship_state |-> state,
     bill_country |-> "CA", bill_state |-> state, shipping_sub_total |-> ship,
     orderitem_set |-> items]

ShippingSubtotals == {Dec(0, 2), Dec(1000, 2)}

\* the tables the TaxClass table can be: a TaxRate row needs its class
TaxClassTables ==
    {{"TaxClass:Default", "TaxClass:Shipping"}, {"TaxClass:Default"},
     {"TaxClass:Shipping"}}

RowsHaveClass(table, classes) ==
    \A i \in 1..Len(table) : table[i].taxClass \in classes

InitCalls ==
    /\ pc = "ready"
    /\ op = ""
    /\ rates = <<>>
    /\ ret = NoReturn
    /\ config \in [TAX_AREA_ADDRESS : {"bill"}, TAX_SHIPPING_CANADIAN : BOOLEAN,
                   TAX_CLASS : {"Shipping"},
                   TAX_SHIPPING_DETAILS_SEPARATE : {FALSE}]
    /\ order \in {NoOrder} \cup
                 {BilledOrder(st, sh, <<>>) : st \in {"on", "Nowhere"},
                                              sh \in ShippingSubtotals}
    /\ user = NoUser
    /\ log = <<>>
    /\ args = <<>>
    /\ taxclasses \in TaxClassTables
    /\ taxrates \in {t \in TaxRateTables : RowsHaveClass(t, taxclasses)}
    /\ sub_total = Zero
    /\ tax_details = EmptyDict
    /\ todo = <<>>

\* a call that runs to its end in one step
Call(name, arguments, result, records) ==
    /\ pc = "ready"
    /\ pc' = "done"
    /\ op' = name
    /\ args' = arguments
    /\ ret' = result
    /\ log' = log \o records
    /\ UNCHANGED <<rates, world, locals>>

\* the tax class arguments: None, a title, a TaxClass row
TaxClassArgs == {None, "default", "Missing"} \cup taxclasses

Call_get_rate ==
    \E tc \in TaxClassArgs, get_object \in BOOLEAN :
        Call("get_rate", <<tc, get_object>>, get_rate(tc, None, None, get_object),
             GetRate(tc, None, None).log)

Call_get_percent ==
    \E tc \in TaxClassArgs, country \in {None, "Country:CA"} :
        Call("get_percent", <<tc, country>>, get_percent(tc, None, country),
             GetRate(tc, None, country).log)

Call_by_price ==
    \E tc \in TaxClassArgs, price \in {Dec(200, 2)} :
        Call("by_price", <<tc, price>>, by_price(tc, price), by_price_log(tc))

Call_by_product ==
    \E product \in Products(taxclasses), quantity \in Quantities :
        Call("by_product", <<product, quantity>>, by_product(product, quantity),
             by_price_log(product.taxClass))

Call_by_orderitem ==
    \E orderitem \in OrderItems(taxclasses) :
        Call("by_orderitem", <<orderitem>>, by_orderitem(orderitem),
             IF orderitem.product.taxable
             THEN by_price_log(orderitem.product.taxClass) ELSE <<>>)

Call_shipping ==
    \E subtotal \in {NoSubtotal} \cup {Subtotal(d) : d \in ShippingSubtotals},
       with_details \in BOOLEAN :
        Call("shipping", <<subtotal, with_details>>, shipping(subtotal, with_details),
             Shipping(subtotal).log)

NextCalls ==
    \/ Call_get_rate
    \/ Call_get_percent
    \/ Call_by_price
    \/ Call_by_product
    \/ Call_by_orderitem
    \/ Call_shipping

SpecCalls == InitCalls /\ [][NextCalls]_vars

----------------------------------------------------------------------------
(* Processor.process, one step for entering, one for each taxable order    *)
(* item and one for shipping and the return.                               *)

\* most items of an order
MaxItems == 2

\* order items: a taxable item without a tax class, a taxable item of the
\* Shipping tax class, an item that is not taxable
ProcessItems(classes) ==
    {it \in [product : Products(classes), sub_total : {Dec(200, 2), Dec(250, 2)}] :
        \/ it.product.taxable /\ it.product.taxClass = None /\ it.sub_total = Dec(250, 2)
        \/ it.product.taxable /\ it.product.taxClass = "TaxClass:Shipping"
              /\ it.sub_total = Dec(200, 2)
        \/ ~it.product.taxable /\ it.product.taxClass = None /\ it.sub_total = Dec(250, 2)}

ProcessOrders(classes) ==
    {BilledOrder("on", sh, items) :
        sh \in ShippingSubtotals, items \in SeqsUpTo(ProcessItems(classes), MaxItems)}

Init ==
    /\ pc = "ready"
    /\ op = ""
    /\ rates = <<>>
    /\ ret = NoReturn
    /\ config \in [TAX_AREA_ADDRESS : {"bill"}, TAX_SHIPPING_CANADIAN : BOOLEAN,
                   TAX_CLASS : {"Shipping"},
                   TAX_SHIPPING_DETAILS_SEPARATE : BOOLEAN]
    /\ taxclasses \in TaxClassTables
    /\ taxrates \in {t \in TaxRateTables : RowsHaveClass(t, taxclasses)}
    /\ order \in {NoOrder} \cup ProcessOrders(taxclasses)
    /\ user = NoUser
    /\ log = <<>>
    /\ args = <<>>
    /\ sub_total = Zero
    /\ tax_details = EmptyDict
    /\ todo = <<>>

IsTaxable(item) == item.product.taxable

\* lines 219-227: order.orderitem_set.filter(product__taxable=True); None
\* has no orderitem_set
Enter(o) ==
    /\ op' = "process"
    /\ order' = o
    /\ IF ~o.present
       THEN /\ pc' = "done"
            /\ ret' = Raised("AttributeError")
            /\ UNCHANGED locals
       ELSE /\ pc' = "items"
            /\ ret' = NoReturn
            /\ sub_total' = Zero
            /\ tax_details' = EmptyDict
            /\ todo' = SelectSeq(o.orderitem_set, IsTaxable)
    /\ UNCHANGED <<rates, log, args, config, user, taxclasses, taxrates>>

\* process(order): the order argument replaces self.order; process() keeps
\* it
process_enter ==
    /\ pc = "ready"
    /\ \E arg \in {NoOrder} \cup
                  (IF order.present THEN {} ELSE ProcessOrders(taxclasses)) :
           Enter(IF arg.present THEN arg ELSE order)

\* lines 229-247 for one item, r what get_rate gave for its tax class
VisitItem(item, r) ==
    /\ log' = log \o r.log
    /\ IF r.exc # ""
       THEN /\ pc' = "done"
            /\ ret' = Raised(r.exc)
            /\ UNCHANGED locals
       ELSE /\ sub_total' = DecAdd(sub_total, DecMul(item.sub_total, r.val[1]))
            /\ tax_details' = AddDetails(tax_details, r.val[2], item.sub_total)
            /\ todo' = Tail(todo)
            /\ UNCHANGED <<pc, ret>>
    /\ UNCHANGED <<op, rates, args, world>>

process_item ==
    /\ pc = "items"
    /\ todo # <<>>
    /\ VisitItem(Head(todo), GetRate(Head(todo).product.taxClass, None, None))

\* 'Shipping ' + taxcode
ShippingKey(taxcode) ==
    CASE taxcode = "GST" -> "Shipping GST"
      [] taxcode = "PST" -> "Shipping PST"
      [] taxcode = "HST" -> "Shipping HST"
      [] taxcode = "taxCode" -> "Shipping taxCode"
      [] OTHER -> "Shipping "

\* lines 254-255: every shipping code gets the amount found under the key
\* 'taxCode'; a dictionary without that key raises KeyError
SeparateDetails(d, sd) ==
    IF DOMAIN sd = {} THEN [exc |-> "", d |-> d]
    ELSE IF "taxCode" \notin DOMAIN sd THEN [exc |-> "KeyError", d |-> d]
    ELSE [exc |-> "",
          d |-> [k \in DOMAIN d \cup {ShippingKey(c) : c \in DOMAIN sd} |->
                    IF k \in {ShippingKey(c) : c \in DOMAIN sd} THEN sd["taxCode"]
                    ELSE d[k]]]

\* a faulty variant: the shipping amount replaces the merchandise amount
CombineDetails_overwrites(d, sd) ==
    [exc |-> "",
     d |-> [k \in DOMAIN d \cup DOMAIN sd |->
               IF k \in DOMAIN sd THEN sd[k] ELSE d[k]]]

\* lines 258-260: tax_details[taxcode] = tax_details.get(taxcode, 0) +
\* ship_tax_details[taxcode]
CombineDetails(d, sd) ==
    [exc |-> "",
     d |-> [k \in DOMAIN d \cup DOMAIN sd |->
               IF k \in DOMAIN sd
               THEN DecAdd(IF k \in DOMAIN d THEN d[k] ELSE Zero, sd[k])
               ELSE d[k]]]

\* lines 252-260
ShippingDetails(d, sd) ==
    IF config.TAX_SHIPPING_DETAILS_SEPARATE THEN SeparateDetails(d, sd)
    ELSE CombineDetails(d, sd)

\* a faulty variant: the shipping tax is left out of the total
TotalWithShipping_without(total, ship_taxes) == total

\* line 250: sub_total += ship_taxes
TotalWithShipping(total, ship_taxes) == DecAdd(total, ship_taxes)

\* lines 250-262
Finish(total, details) ==
    /\ pc' = "done"
    /\ sub_total' = total
    /\ IF details.exc # ""
       THEN ret' = Raised(details.exc) /\ UNCHANGED tax_details
       ELSE ret' = Returned(<<total, details.d>>) /\ tax_details' = details.d

\* lines 249-262, s what shipping(with_details=True) gave
AddShipping(s) ==
    /\ log' = log \o s.log
    /\ IF s.exc # ""
       THEN pc' = "done" /\ ret' = Raised(s.exc) /\ UNCHANGED <<sub_total, tax_details>>
       ELSE Finish(TotalWithShipping(sub_total, s.ship_tax),
                   ShippingDetails(tax_details, s.tax_details))
    /\ UNCHANGED <<op, rates, args, world, todo>>

process_shipping ==
    /\ pc = "items"
    /\ todo = <<>>
    /\ AddShipping(Shipping(NoSubtotal))

Next ==
    \/ process_enter
    \/ process_item
    \/ process_shipping

Spec == Init /\ [][Next]_vars

----------------------------------------------------------------------------
(* Properties of tax_rate_list, checked under SpecReduce.                  *)

ReduceDone == pc = "done" /\ op = "tax_rate_list"

HasOverride(rs) == \E i \in 1..Len(rs) : rs[i].override

FirstOverrideIndex(rs) ==
    CHOOSE i \in 1..Len(rs) : rs[i].override /\ \A j \in 1..(i - 1) : ~rs[j].override

RECURSIVE SumPercentages(_)
SumPercentages(bd) ==
    IF bd = <<>> THEN Dec(0, 0) ELSE DecAdd(bd[1][2], SumPercentages(Tail(bd)))

\* C1: a list with an override record reduces to (p, [(c, p)]) of the first
\* override record in input order, whatever else the list holds.
C1_FirstOverrideWins ==
    (ReduceDone /\ HasOverride(rates)) =>
        LET r == rates[FirstOverrideIndex(rates)]
        IN  ret = Returned(<<r.percentage, << <<r.taxCode, r.percentage>> >> >>)

\* a compound record, then two override records that differ in code and
\* percentage
C1_Witness ==
    /\ ReduceDone
    /\ Len(rates) = 3
    /\ rates[1].compound /\ ~rates[1].override
    /\ rates[2].override /\ rates[3].override
    /\ rates[2].percentage # rates[3].percentage
    /\ rates[2].taxCode # rates[3].taxCode
    /\ ret.val[1] = rates[2].percentage

\* C2: the percentages of the breakdown sum exactly to the total rate, for
\* every input list.
C2_BreakdownSumsToTotal ==
    ReduceDone => SumPercentages(ret.val[2]) = ret.val[1]

\* a non-compound rate followed by two compound rates, no override
C2_Witness ==
    /\ ReduceDone
    /\ Len(rates) = 3
    /\ ~HasOverride(rates)
    /\ ~rates[1].compound /\ rates[2].compound /\ rates[3].compound
    /\ Len(ret.val[2]) = 3

CompoundIdx(rs) == {i \in 1..Len(rs) : rs[i].compound}
RegularIdx(rs) == {i \in 1..Len(rs) : ~rs[i].compound}

DistinctCompoundOrders(rs) ==
    \A i, j \in CompoundIdx(rs) : i # j => rs[i].compound_order # rs[j].compound_order

\* rs rearranged by the permutation p of its indices
Permuted(rs, p) == [i \in 1..Len(rs) |-> rs[p[i]]]

\* p keeps the non-compound records in their relative order
KeepsRegularOrder(rs, p) ==
    \A i, j \in 1..Len(rs) :
        (i < j /\ ~rs[p[i]].compound /\ ~rs[p[j]].compound) => p[i] < p[j]

\* C3: without override records and with distinct compound_order values, the
\* result is the same for every placement of the compound records in the
\* input; in the breakdown the non-compound records come first and the
\* compound records follow in ascending compound_order.
C3_CompoundOrderIndependent ==
    (ReduceDone /\ ~HasOverride(rates) /\ DistinctCompoundOrders(rates)) =>
        /\ \A p \in Permutations(1..Len(rates)) :
               KeepsRegularOrder(rates, p) =>
                   tax_rate_list(Permuted(rates, p)) = ret.val
        /\ Len(ret.val[2]) = Len(rates)
        /\ \A i \in CompoundIdx(rates) :
               LET smaller == {j \in CompoundIdx(rates) :
                                  rates[j].compound_order < rates[i].compound_order}
               IN  ret.val[2][Cardinality(RegularIdx(rates)) + Cardinality(smaller) + 1][1]
                       = rates[i].taxCode

\* two compound records given in descending compound_order before a
\* non-compound record
C3_Witness ==
    /\ ReduceDone
    /\ Len(rates) = 3
    /\ ~HasOverride(rates)
    /\ rates[1].compound /\ rates[1].compound_order = 2
    /\ rates[2].compound /\ rates[2].compound_order = 1
    /\ rates[1].percentage # rates[2].percentage
    /\ ~rates[3].compound
    /\ ret.val[2][1][1] = rates[3].taxCode

RECURSIVE SumRegular(_)
SumRegular(rs) ==
    IF rs = <<>> THEN Dec(0, 0)
    ELSE IF rs[1].compound THEN SumRegular(Tail(rs))
    ELSE DecAdd(rs[1].percentage, SumRegular(Tail(rs)))

\* the compound records applied before record i when only a smaller
\* compound_order counts
SmallerOrder(rs, i) ==
    {j \in CompoundIdx(rs) : rs[j].compound_order < rs[i].compound_order}

\* the compound records applied before record i: a smaller compound_order,
\* or the same compound_order and an earlier place in the input
AppliedBefore(rs, i) ==
    {j \in CompoundIdx(rs) :
        \/ rs[j].compound_order < rs[i].compound_order
        \/ rs[j].compound_order = rs[i].compound_order /\ j < i}

\* percentage r compounded on the total T: r + r * T
Compounded(r, T) == DecAdd(r, DecMul(r, T))

RECURSIVE EffSmaller(_, _), SumEffSmaller(_, _), SumEffSmallerFrom(_, _, _)
EffSmaller(rs, i) ==
    Compounded(rs[i].percentage,
               DecAdd(SumRegular(rs), SumEffSmaller(rs, SmallerOrder(rs, i))))

SumEffSmallerFrom(rs, S, j) ==
    DecAdd(EffSmaller(rs, j), SumEffSmaller(rs, S \ {j}))

SumEffSmaller(rs, S) ==
    IF S = {} THEN Dec(0, 0)
    ELSE SumEffSmallerFrom(rs, S, CHOOSE k \in S : TRUE)

RECURSIVE EffBefore(_, _), SumEffBefore(_, _), SumEffBeforeFrom(_, _, _)
EffBefore(rs, i) ==
    Compounded(rs[i].percentage,
               DecAdd(SumRegular(rs), SumEffBefore(rs, AppliedBefore(rs, i))))

SumEffBeforeFrom(rs, S, j) ==
    DecAdd(EffBefore(rs, j), SumEffBefore(rs, S \ {j}))

SumEffBefore(rs, S) ==
    IF S = {} THEN Dec(0, 0)
    ELSE SumEffBeforeFrom(rs, S, CHOOSE k \in S : TRUE)

CompoundSection(rs, bd) == (Cardinality(RegularIdx(rs)) + 1)..Len(bd)

\* C4 as stated: each compound record r gets r + r * T, T the sum of the
\* non-compound percentages and of the effective percentages of the compound
\* records with a smaller compound_order.
C4_AsStated ==
    (ReduceDone /\ ~HasOverride(rates)) =>
        \A i \in CompoundIdx(rates) :
            \E k \in CompoundSection(rates, ret.val[2]) :
                ret.val[2][k] = <<rates[i].taxCode, EffSmaller(rates, i)>>

GST5 ==
    [taxCode |-> "GST", percentage |-> Dec(5, 2), compound |-> FALSE,
     compound_order |-> 1, override |-> FALSE]

PST7Compound ==
    [taxCode |-> "PST", percentage |-> Dec(7, 2), compound |-> TRUE,
     compound_order |-> 1, override |-> FALSE]

\* C4 amended: each compound record r gets r + r * T, T the running total:
\* the sum of the non-compound percentages and of the effective percentages
\* of the compound records applied before it (a smaller compound_order, or
\* the same compound_order and an earlier place in the input); the total
\* rate is the non-compound sum plus the effective percentages of the
\* breakdown's compound section; base 5% and
\* compound 7% give 5% and 7.35%, total 12.35%.
C4_CompoundsOnRunningTotal ==
    (ReduceDone /\ ~HasOverride(rates)) =>
        /\ \A i \in CompoundIdx(rates) :
               \E k \in CompoundSection(rates, ret.val[2]) :
                   ret.val[2][k] = <<rates[i].taxCode, EffBefore(rates, i)>>
        /\ ret.val[1] = DecAdd(SumRegular(rates),
                               SumPercentages(SubSeq(ret.val[2],
                                   Cardinality(RegularIdx(rates)) + 1,
                                   Len(ret.val[2]))))
        /\ rates = <<GST5, PST7Compound>> =>
               ret.val = <<Dec(1235, 4), << <<"GST", Dec(5, 2)>>, <<"PST", Dec(735, 4)>> >> >>

\* a non-compound base and two compound records of the same compound_order:
\* the second compounds on the first
C4_Witness ==
    /\ ReduceDone
    /\ Len(rates) = 3
    /\ ~HasOverride(rates)
    /\ ~rates[1].compound
    /\ rates[2].compound /\ rates[3].compound
    /\ rates[2].compound_order = rates[3].compound_order
    /\ ret.val[2][3][2] = EffBefore(rates, 3)
    /\ ret.val[2][3][2] # EffSmaller(rates, 3)

----------------------------------------------------------------------------
(* Properties of _get_location, checked under SpecLocation.                *)

LocationDone == pc = "done" /\ op = "_get_location"

\* the address the settings select: of the order if there is one, else of
\* the authenticated user's contact
UsesShipAddress == config.TAX_AREA_ADDRESS = "ship"

ContactAddress == IF UsesShipAddress THEN user.shipping_address ELSE user.billing_address

HasContactAddress ==
    user.present /\ user.is_authenticated /\ user.has_contact /\ ContactAddress.present

GivenCountryString == IF UsesShipAddress THEN order.ship_country ELSE order.bill_country

GivenAreaString ==
    IF order.present
    THEN (IF UsesShipAddress THEN order.ship_state ELSE order.bill_state)
    ELSE IF HasContactAddress THEN ContactAddress.state
    ELSE ""

CountryInDirectory(code) ==
    \E c \in DOMAIN CountryRows : CountryRows[c].iso2_code = code

AreaInDirectory(area, country) ==
    \E a \in DOMAIN AdminAreaRows :
        /\ AdminAreaRows[a].country = country
        /\ \/ Lower(AdminAreaRows[a].name) = Lower(area)
           \/ Lower(AdminAreaRows[a].abbrev) = Lower(area)

Logged(level, msg) == \E i \in 1..Len(log) : log[i] = <<level, msg>>

\* C9: _get_location never raises on a lookup that finds nothing.  With an
\* order, a country string that is empty or not in the directory is logged
\* (when looked up) and replaced by the store's default country, and the
\* user is not consulted; without an order and without a contact address
\* the default country is used.  A non-empty area string that matches no
\* AdminArea of the resolved country by name or abbreviation is logged and
\* gives area None; an empty area string is not looked up and stays empty.
C9_ResolverFailsSoft ==
    LocationDone =>
        /\ ret.kind = "return"
        /\ order.present =>
              /\ ~CountryInDirectory(GivenCountryString) => ret.val[2] = sales_country
              /\ (GivenCountryString # "" /\ ~CountryInDirectory(GivenCountryString)) =>
                     Logged("error", "Couldn't find Country from string")
              /\ CountryInDirectory(GivenCountryString) =>
                     CountryRows[ret.val[2]].iso2_code = GivenCountryString
              /\ \A u \in Users : get_location(order, u, config) = ret
        /\ (~order.present /\ ~HasContactAddress) => ret.val[2] = sales_country
        /\ (~order.present /\ HasContactAddress) => ret.val[2] = ContactAddress.country
        /\ (GivenAreaString # "" /\ ~AreaInDirectory(GivenAreaString, ret.val[2])) =>
              /\ ret.val[1] = None
              /\ Logged("info", "Couldn't find AdminArea from string")
        /\ (GivenAreaString # "" /\ AreaInDirectory(GivenAreaString, ret.val[2])) =>
              /\ ret.val[1] \in DOMAIN AdminAreaRows
              /\ AdminAreaRows[ret.val[1]].country = ret.val[2]
        /\ GivenAreaString = "" => ~Truthy(ret.val[1])

\* an order whose country and area strings are both unknown, on a processor
\* whose user has a contact with a resolvable address
C9_Witness ==
    /\ LocationDone
    /\ order.present
    /\ GivenCountryString = "XX"
    /\ GivenAreaString = "Nowhere"
    /\ HasContactAddress
    /\ ContactAddress.state = "on"
    /\ ret = Returned(<<None, sales_country>>)
    /\ Len(log) = 2

----------------------------------------------------------------------------
(* Properties of shipping, by_product and by_orderitem, checked under      *)
(* SpecCalls.                                                              *)

ShippingDone == pc = "done" /\ op = "shipping"

\* the subtotal shipping taxes: the argument, else the order's shipping
\* subtotal, else nothing
TaxedSubtotal ==
    IF args[1].given THEN args[1].value
    ELSE IF order.present THEN order.shipping_sub_total
    ELSE Zero

WithDetails == args[2]

ShippingTaxReturned == IF WithDetails THEN ret.val[1] ELSE ret.val

ShippingClassExists ==
    \E t \in taxclasses : TaxClassRows[t].title = config.TAX_CLASS

ShippingClass == CHOOSE t \in taxclasses : TaxClassRows[t].title = config.TAX_CLASS

C8_NonTaxableYieldsZero ==
    /\ (pc = "done" /\ op = "by_product") =>
           IF args[1].taxable
           THEN ret = by_price(args[1].taxClass, args[1].qty_price[args[2]])
           ELSE ret = Returned(Zero)
    /\ (pc = "done" /\ op = "by_orderitem") =>
           IF args[1].product.taxable
           THEN ret = by_price(args[1].product.taxClass, args[1].sub_total)
           ELSE ret = Returned(Zero)

----------------------------------------------------------------------------
(* Properties of process, checked under Spec.                              *)

ProcessDone == pc = "done" /\ op = "process"
ProcessReturned == ProcessDone /\ ret.kind = "return"

\* the amount a breakdown puts on code c for a price
RECURSIVE AmountOf(_, _, _)
AmountOf(taxes, c, price) ==
    IF taxes = <<>> THEN Dec(0, 0)
    ELSE DecAdd(IF taxes[1][1] = c THEN DecMul(taxes[1][2], price) ELSE Dec(0, 0),
                AmountOf(Tail(taxes), c, price))

BreakdownCodes(taxes) == {taxes[i][1] : i \in 1..Len(taxes)}

\* the breakdown of an order item's tax class
ItemBreakdown(item) == GetRate(item.product.taxClass, None, None).val[2]

TaxableItems == SelectSeq(order.orderitem_set, IsTaxable)

\* the merchandise tax on code c: over the taxable items, the effective
\* rate of c for the item's tax class times the item's subtotal
RECURSIVE MerchandiseOf(_, _)
MerchandiseOf(items, c) ==
    IF items = <<>> THEN Dec(0, 0)
    ELSE DecAdd(AmountOf(ItemBreakdown(items[1]), c, items[1].sub_total),
                MerchandiseOf(Tail(items), c))

MerchandiseCodes ==
    UNION {BreakdownCodes(ItemBreakdown(TaxableItems[i])) : i \in 1..Len(TaxableItems)}

\* the breakdown shipping is taxed with: that of the tax class titled
\* TAX_CLASS when shipping is taxed and there is a shipping subtotal
ShippingBreakdown ==
    IF /\ config.TAX_SHIPPING_CANADIAN
       /\ ShippingClassExists
       /\ order.shipping_sub_total # Zero
    THEN GetRate(ShippingClass, None, None).val[2]
    ELSE <<>>

ShippingAmount(c) == AmountOf(ShippingBreakdown, c, order.shipping_sub_total)

RECURSIVE SumValues(_, _), SumValuesFrom(_, _, _)
SumValuesFrom(d, keys, k) == DecAdd(d[k], SumValues(d, keys \ {k}))

SumValues(d, keys) ==
    IF keys = {} THEN Dec(0, 0)
    ELSE SumValuesFrom(d, keys, CHOOSE x \in keys : TRUE)

\* C5 as stated: with TAX_SHIPPING_DETAILS_SEPARATE on and a non-empty
\* shipping breakdown, process returns, every shipping code c has the key
\* "Shipping " + c holding the shipping tax of c, and the unprefixed codes
\* hold the merchandise tax only.
C5_SeparateShippingDetails ==
    (/\ ProcessDone
     /\ order.present
     /\ todo = <<>>
     /\ config.TAX_SHIPPING_DETAILS_SEPARATE
     /\ ShippingBreakdown # <<>>) =>
        /\ ret.kind = "return"
        /\ \A c \in BreakdownCodes(ShippingBreakdown) :
               /\ ShippingKey(c) \in DOMAIN ret.val[2]
               /\ ret.val[2][ShippingKey(c)] = ShippingAmount(c)
        /\ \A c \in MerchandiseCodes :
               /\ c \in DOMAIN ret.val[2]
               /\ ret.val[2][c] = MerchandiseOf(TaxableItems, c)

\* C6: with TAX_SHIPPING_DETAILS_SEPARATE off the returned detail map has
\* exactly the codes of the merchandise and shipping breakdowns, each
\* holding the merchandise tax of the code plus its shipping tax.
C6_CombinedDetails ==
    (ProcessReturned /\ ~config.TAX_SHIPPING_DETAILS_SEPARATE) =>
        /\ DOMAIN ret.val[2] = MerchandiseCodes \cup BreakdownCodes(ShippingBreakdown)
        /\ \A c \in DOMAIN ret.val[2] :
               ret.val[2][c] = DecAdd(MerchandiseOf(TaxableItems, c), ShippingAmount(c))

\* two taxable items of 2.50 taxed GST 5% and compound PST 7%, shipping of
\* 10.00 taxed GST 5%: GST is 0.25 + 0.50, PST is merchandise only
C6_Witness ==
    /\ ProcessReturned
    /\ ~config.TAX_SHIPPING_DETAILS_SEPARATE
    /\ Len(TaxableItems) = 2
    /\ BreakdownCodes(ShippingBreakdown) = {"GST"}
    /\ MerchandiseCodes = {"GST", "PST"}
    /\ ret.val[2]["GST"] = Dec(75, 2)
    /\ ret.val[2]["PST"] = Dec(3675, 4)

\* C10: with TAX_SHIPPING_DETAILS_SEPARATE off the running total equals the
\* sum of the per-code amounts after every order item and after shipping,
\* and the returned total equals the sum of the returned detail map.
C10_TotalIsSumOfDetails ==
    (op = "process" /\ ~config.TAX_SHIPPING_DETAILS_SEPARATE) =>
        /\ (pc = "items" \/ ProcessReturned) =>
               sub_total = SumValues(tax_details, DOMAIN tax_details)
        /\ ProcessReturned =>
               ret.val[1] = SumValues(ret.val[2], DOMAIN ret.val[2])

\* two taxable items and taxed shipping, combined: 0.75 GST and 0.3675 PST
C10_Witness ==
    /\ ProcessReturned
    /\ ~config.TAX_SHIPPING_DETAILS_SEPARATE
    /\ Len(TaxableItems) = 2
    /\ ShippingBreakdown # <<>>
    /\ MerchandiseCodes = {"GST", "PST"}
    /\ ret.val[1] = Dec(11175, 4)

====
